---- MODULE Spec2Model ----
(***************************************************************************)
(* V4L2 M2M converter (src/libcamera/converter/converter_v4l2_m2m.cpp):    *)
(* the multi-stream coordinator V4L2M2MConverter, its per-stream engine    *)
(* V4L2M2MConverter::Stream and the input buffer reference count queue_.   *)
(*                                                                         *)
(* Naming follows V4L2: the "output" video device of an M2M device is the  *)
(* INPUT side of the converter, the "capture" video device its OUTPUT side.*)
(***************************************************************************)
EXTENDS Integers, Sequences, FiniteSets, TLC

\* ---------------------------------------------------------------- bounds
MaxStreams == 2          \* largest number of output configurations tried

\* ------------------------------------------------------------- constants
EINVAL == 22

Null == 0                          \* nullptr FrameBuffer
InBufs == {1, 2}                   \* input FrameBuffers the caller owns
OutBufs == 11 .. (10 + MaxStreams) \* output FrameBuffers the caller owns
HwErrors == {-5}                   \* error codes a device call can return
BufferCounts == {1, 2}             \* bufferCount values of a StreamConfiguration
ENOSLOT == -2                      \* no free registration for a queued buffer

VARIABLES
    streams_,   \* V4L2M2MConverter::streams_ : sequence of Stream (index i at i+1)
    queue_,     \* V4L2M2MConverter::queue_   : input buffer -> reference count
    last,       \* the last call on the converter and what it returned
    trace,      \* device calls and signals of the last step, in order
    req         \* per input buffer: history since its queue_ entry was inserted

vars == <<streams_, queue_, last, trace, req>>

\* ------------------------------------------------------------------------
\* The V4L2 video device of one side of an M2M device (collaborator).
\*   bufs      number of imported buffer registrations (0: none)
\*   streaming the queue is active
\*   held      buffers queued to the device and not yet completed (FIFO)
\* ------------------------------------------------------------------------
NewDevice == [bufs |-> 0, streaming |-> FALSE, held |-> <<>>]

\* One entry of the trace: stream s made device call `op` on buffer/count
\* `arg` and got `ret`, or stream s raised signal `op` on buffer `arg`.  For
\* setFormat, `arg` tells which field the negotiation altered (AlterCode).
Ev(s, op, arg, ret) == [s |-> s, op |-> op, arg |-> arg, ret |-> ret]

ImportBuffers(q, count, err) ==
    IF err # 0 THEN [q |-> q, ret |-> err]
    ELSE [q |-> [q EXCEPT !.bufs = count], ret |-> 0]

StreamOn(q, err) ==
    IF err # 0 THEN [q |-> q, ret |-> err]
    ELSE [q |-> [q EXCEPT !.streaming = TRUE], ret |-> 0]

StreamOff(q) == [q EXCEPT !.streaming = FALSE, !.held = <<>>]

ReleaseBuffers(q) == [q EXCEPT !.bufs = 0]

QueueBuffer(q, buffer, err) ==
    IF err # 0 THEN [q |-> q, ret |-> err]
    ELSE IF Len(q.held) >= q.bufs THEN [q |-> q, ret |-> ENOSLOT]
    ELSE [q |-> [q EXCEPT !.held = Append(@, buffer)], ret |-> 0]

\* ------------------------------------------------------------------------
\* Formats.  A StreamConfiguration is [pixelFormat, size, stride,
\* bufferCount]; a V4L2DeviceFormat is [fourcc, size, bpl].
\* ------------------------------------------------------------------------
InputCfgs ==
    [pixelFormat : {1}, size : {4}, stride : {8}, bufferCount : BufferCounts]
OutputCfgs ==
    [pixelFormat : {2}, size : {2}, stride : {4}, bufferCount : BufferCounts]

\* toV4L2PixelFormat: the device's table from PixelFormat to V4L2 fourcc.
ToV4L2PixelFormat(pixelFormat) == 100 + pixelFormat

\* What the hardware answers to the calls of one Stream's construction and
\* configure: open() result, setFormat() results, and which field of the
\* requested format the negotiation altered on each side.
Alterations == {"none", "fourcc", "size", "bpl"}
AlterCode(alter) ==
    CASE alter = "fourcc" -> 1 [] alter = "size" -> 2 [] alter = "bpl" -> 3
      [] OTHER -> 0
Negotiated(format, alter) ==
    CASE alter = "fourcc" -> [format EXCEPT !.fourcc = @ + 1]
      [] alter = "size"   -> [format EXCEPT !.size = @ + 1]
      [] alter = "bpl"    -> [format EXCEPT !.bpl = @ + 1]
      [] OTHER            -> format

HwConfigure ==
    { h \in [open : {0} \cup HwErrors, inRet : {0} \cup HwErrors,
             inAlter : Alterations, outRet : {0} \cup HwErrors,
             outAlter : Alterations] :
        \* answers to calls that are never made are not enumerated
        /\ h.open # 0 => h.inRet = 0
        /\ (h.open # 0 \/ h.inRet # 0) => h.inAlter = "none"
        /\ (h.open # 0 \/ h.inRet # 0 \/ h.inAlter # "none") => h.outRet = 0
        /\ (h.open # 0 \/ h.inRet # 0 \/ h.inAlter # "none" \/ h.outRet # 0)
              => h.outAlter = "none" }

\* ------------------------------------------------------------------------
\* V4L2M2MConverter::Stream
\* ------------------------------------------------------------------------
\* Stream::Stream: a new M2M device; m2m_ is reset when open() fails
\* (valid = FALSE, isValid()).
Stream(index, openRet) ==
    [index_ |-> index, valid |-> openRet >= 0,
     output |-> NewDevice, capture |-> NewDevice,
     inputBufferCount_ |-> 0, outputBufferCount_ |-> 0]

\* Stream::configure that also rejects an output format negotiated with
\* another stride.
StreamConfigureStrict(s, inputCfg, outputCfg, h, tr) ==
    LET i == s.index_
        inFmt == [fourcc |-> ToV4L2PixelFormat(inputCfg.pixelFormat),
                  size |-> inputCfg.size, bpl |-> inputCfg.stride]
        inGot == Negotiated(inFmt, h.inAlter)
        tr1 == Append(tr, Ev(i, "output.setFormat", AlterCode(h.inAlter), h.inRet))
        outFmt == [fourcc |-> ToV4L2PixelFormat(outputCfg.pixelFormat),
                   size |-> outputCfg.size, bpl |-> 0]
        outGot == Negotiated(outFmt, h.outAlter)
        tr2 == Append(tr1, Ev(i, "capture.setFormat", AlterCode(h.outAlter), h.outRet))
    IN  IF h.inRet < 0 THEN [s |-> s, ret |-> h.inRet, tr |-> tr1]
        ELSE IF inGot # inFmt THEN [s |-> s, ret |-> -EINVAL, tr |-> tr1]
        ELSE IF h.outRet < 0 THEN [s |-> s, ret |-> h.outRet, tr |-> tr2]
        ELSE IF outGot # outFmt THEN [s |-> s, ret |-> -EINVAL, tr |-> tr2]
        ELSE [s |-> [s EXCEPT !.inputBufferCount_ = inputCfg.bufferCount,
                              !.outputBufferCount_ = outputCfg.bufferCount],
              ret |-> 0, tr |-> tr2]

\* Stream::configure.  Returns [s, ret, tr].
StreamConfigure(s, inputCfg, outputCfg, h, tr) ==
    LET i == s.index_
        inFmt == [fourcc |-> ToV4L2PixelFormat(inputCfg.pixelFormat),
                  size |-> inputCfg.size, bpl |-> inputCfg.stride]
        inGot == Negotiated(inFmt, h.inAlter)
        tr1 == Append(tr, Ev(i, "output.setFormat", AlterCode(h.inAlter), h.inRet))
        outFmt == [fourcc |-> ToV4L2PixelFormat(outputCfg.pixelFormat),
                   size |-> outputCfg.size, bpl |-> 0]
        outGot == Negotiated(outFmt, h.outAlter)
        tr2 == Append(tr1, Ev(i, "capture.setFormat", AlterCode(h.outAlter), h.outRet))
    IN  IF h.inRet < 0 THEN [s |-> s, ret |-> h.inRet, tr |-> tr1]
        ELSE IF \/ inGot.fourcc # inFmt.fourcc
                \/ inGot.size # inputCfg.size
                \/ inGot.bpl # inputCfg.stride
             THEN [s |-> s, ret |-> -EINVAL, tr |-> tr1]
        ELSE IF h.outRet < 0 THEN [s |-> s, ret |-> h.outRet, tr |-> tr2]
        ELSE IF outGot.fourcc # outFmt.fourcc \/ outGot.size # outputCfg.size
             THEN [s |-> s, ret |-> -EINVAL, tr |-> tr2]
        ELSE [s |-> [s EXCEPT !.inputBufferCount_ = inputCfg.bufferCount,
                              !.outputBufferCount_ = outputCfg.bufferCount],
              ret |-> 0, tr |-> tr2]

\* Stream::stop that also forgets the negotiated buffer counts.
StreamStopReset(s, tr) ==
    LET i == s.index_
    IN  [s |-> [s EXCEPT !.capture = ReleaseBuffers(StreamOff(@)),
                         !.output = ReleaseBuffers(StreamOff(@)),
                         !.inputBufferCount_ = 0, !.outputBufferCount_ = 0],
         tr |-> tr \o << Ev(i, "capture.streamOff", 0, 0),
                         Ev(i, "output.streamOff", 0, 0),
                         Ev(i, "capture.releaseBuffers", 0, 0),
                         Ev(i, "output.releaseBuffers", 0, 0) >>]

\* Stream::stop.  Returns [s, tr].
StreamStop(s, tr) ==
    LET i == s.index_
    IN  [s |-> [s EXCEPT !.capture = ReleaseBuffers(StreamOff(@)),
                         !.output = ReleaseBuffers(StreamOff(@))],
         tr |-> tr \o << Ev(i, "capture.streamOff", 0, 0),
                         Ev(i, "output.streamOff", 0, 0),
                         Ev(i, "capture.releaseBuffers", 0, 0),
                         Ev(i, "output.releaseBuffers", 0, 0) >>]

\* What the hardware answers to the calls of one Stream::start: the
\* sub-step that fails (0: none; 1 output.importBuffers, 2
\* capture.importBuffers, 3 output.streamOn, 4 capture.streamOn) and its
\* error code.
HwStart ==
    { h \in [step : 0 .. 4, err : {0} \cup HwErrors] : h.step = 0 <=> h.err = 0 }
ErrAt(h, k) == IF h.step = k THEN h.err ELSE 0

\* Stream::start that calls stop() after a failure of any sub-step, the
\* first included.
StreamStartStopAlways(s, h, tr) ==
    LET i == s.index_
        r1 == ImportBuffers(s.output, s.inputBufferCount_, ErrAt(h, 1))
        s1 == [s EXCEPT !.output = r1.q]
        t1 == Append(tr, Ev(i, "output.importBuffers", s.inputBufferCount_, r1.ret))
        r2 == ImportBuffers(s1.capture, s1.outputBufferCount_, ErrAt(h, 2))
        s2 == [s1 EXCEPT !.capture = r2.q]
        t2 == Append(t1, Ev(i, "capture.importBuffers", s1.outputBufferCount_, r2.ret))
        r3 == StreamOn(s2.output, ErrAt(h, 3))
        s3 == [s2 EXCEPT !.output = r3.q]
        t3 == Append(t2, Ev(i, "output.streamOn", 0, r3.ret))
        r4 == StreamOn(s3.capture, ErrAt(h, 4))
        s4 == [s3 EXCEPT !.capture = r4.q]
        t4 == Append(t3, Ev(i, "capture.streamOn", 0, r4.ret))
        Undo(sx, tx, ret) ==
            LET u == StreamStop(sx, tx) IN [s |-> u.s, ret |-> ret, tr |-> u.tr]
    IN  IF r1.ret < 0 THEN Undo(s1, t1, r1.ret)
        ELSE IF r2.ret < 0 THEN Undo(s2, t2, r2.ret)
        ELSE IF r3.ret < 0 THEN Undo(s3, t3, r3.ret)
        ELSE IF r4.ret < 0 THEN Undo(s4, t4, r4.ret)
        ELSE [s |-> s4, ret |-> 0, tr |-> t4]

\* Stream::start.  Returns [s, ret, tr].
StreamStart(s, h, tr) ==
    LET i == s.index_
        r1 == ImportBuffers(s.output, s.inputBufferCount_, ErrAt(h, 1))
        s1 == [s EXCEPT !.output = r1.q]
        t1 == Append(tr, Ev(i, "output.importBuffers", s.inputBufferCount_, r1.ret))
        r2 == ImportBuffers(s1.capture, s1.outputBufferCount_, ErrAt(h, 2))
        s2 == [s1 EXCEPT !.capture = r2.q]
        t2 == Append(t1, Ev(i, "capture.importBuffers", s1.outputBufferCount_, r2.ret))
        r3 == StreamOn(s2.output, ErrAt(h, 3))
        s3 == [s2 EXCEPT !.output = r3.q]
        t3 == Append(t2, Ev(i, "output.streamOn", 0, r3.ret))
        r4 == StreamOn(s3.capture, ErrAt(h, 4))
        s4 == [s3 EXCEPT !.capture = r4.q]
        t4 == Append(t3, Ev(i, "capture.streamOn", 0, r4.ret))
        Undo(sx, tx, ret) ==
            LET u == StreamStop(sx, tx) IN [s |-> u.s, ret |-> ret, tr |-> u.tr]
    IN  IF r1.ret < 0 THEN [s |-> s1, ret |-> r1.ret, tr |-> t1]
        ELSE IF r2.ret < 0 THEN Undo(s2, t2, r2.ret)
        ELSE IF r3.ret < 0 THEN Undo(s3, t3, r3.ret)
        ELSE IF r4.ret < 0 THEN Undo(s4, t4, r4.ret)
        ELSE [s |-> s4, ret |-> 0, tr |-> t4]

\* What the hardware answers to the two queueBuffer calls of one
\* Stream::queueBuffers.
HwQueue ==
    { h \in [inErr : {0} \cup HwErrors, outErr : {0} \cup HwErrors] :
        h.inErr # 0 => h.outErr = 0 }

\* Stream::queueBuffers that queues the output buffer first.
StreamQueueBuffersOutputFirst(s, input, output, h, tr) ==
    LET i == s.index_
        r1 == QueueBuffer(s.capture, output, h.outErr)
        s1 == [s EXCEPT !.capture = r1.q]
        t1 == Append(tr, Ev(i, "capture.queueBuffer", output, r1.ret))
        r2 == QueueBuffer(s1.output, input, h.inErr)
        s2 == [s1 EXCEPT !.output = r2.q]
        t2 == Append(t1, Ev(i, "output.queueBuffer", input, r2.ret))
    IN  IF r1.ret < 0 THEN [s |-> s1, ret |-> r1.ret, tr |-> t1]
        ELSE IF r2.ret < 0 THEN [s |-> s2, ret |-> r2.ret, tr |-> t2]
        ELSE [s |-> s2, ret |-> 0, tr |-> t2]

\* Stream::queueBuffers.  Returns [s, ret, tr].
StreamQueueBuffers(s, input, output, h, tr) ==
    LET i == s.index_
        r1 == QueueBuffer(s.output, input, h.inErr)
        s1 == [s EXCEPT !.output = r1.q]
        t1 == Append(tr, Ev(i, "output.queueBuffer", input, r1.ret))
        r2 == QueueBuffer(s1.capture, output, h.outErr)
        s2 == [s1 EXCEPT !.capture = r2.q]
        t2 == Append(t1, Ev(i, "capture.queueBuffer", output, r2.ret))
    IN  IF r1.ret < 0 THEN [s |-> s1, ret |-> r1.ret, tr |-> t1]
        ELSE IF r2.ret < 0 THEN [s |-> s2, ret |-> r2.ret, tr |-> t2]
        ELSE [s |-> s2, ret |-> 0, tr |-> t2]

\* ------------------------------------------------------------------------
\* V4L2M2MConverter
\* ------------------------------------------------------------------------
\* Answers of the hardware to a loop over n streams that stops at the first
\* failing stream: the answers to calls that are never made are fixed to
\* `ok` instead of being enumerated.
Runs(n, answers, ok, failing) ==
    { hw \in [1 .. n -> answers] :
        \A j \in 1 .. n :
            (\E i \in 1 .. (j - 1) : hw[i] \in failing) => hw[j] = ok }

HwConfigureOk ==
    [open |-> 0, inRet |-> 0, inAlter |-> "none", outRet |-> 0, outAlter |-> "none"]
ConfigureFails ==
    { h \in HwConfigure :
        h.open # 0 \/ h.inRet # 0 \/ h.inAlter # "none" \/ h.outRet # 0
        \/ h.outAlter \in {"fourcc", "size"} }
ConfigureRuns ==
    [n \in 0 .. MaxStreams |-> Runs(n, HwConfigure, HwConfigureOk, ConfigureFails)]

HwStartOk == [step |-> 0, err |-> 0]
StartFails == { h \in HwStart : h.step # 0 }
StartRuns ==
    [n \in 0 .. MaxStreams |-> Runs(n, HwStart, HwStartOk, StartFails)]

HwQueueOk == [inErr |-> 0, outErr |-> 0]
QueueFails == { h \in HwQueue : h.inErr # 0 \/ h.outErr # 0 }
QueueRuns ==
    [n \in 0 .. MaxStreams |-> Runs(n, HwQueue, HwQueueOk, QueueFails)]

\* The loop of V4L2M2MConverter::configure from stream index i (0-based).
RECURSIVE ConfigureFrom(_, _, _, _, _, _)
ConfigureFrom(ss, i, inputCfg, outputCfgs, hw, tr) ==
    IF i >= Len(outputCfgs) THEN [ss |-> ss, ret |-> 0, tr |-> tr]
    ELSE LET stream == Stream(i, hw[i + 1].open)
             t0 == Append(tr, Ev(i, "open", 0, hw[i + 1].open))
         IN  IF ~stream.valid
             THEN [ss |-> Append(ss, stream), ret |-> -EINVAL, tr |-> t0]
             ELSE LET r == StreamConfigure(stream, inputCfg, outputCfgs[i + 1],
                                           hw[i + 1], t0)
                  IN  IF r.ret < 0
                      THEN [ss |-> Append(ss, r.s), ret |-> r.ret, tr |-> r.tr]
                      ELSE ConfigureFrom(Append(ss, r.s), i + 1, inputCfg,
                                         outputCfgs, hw, r.tr)

\* configure that keeps the streams created before the failure.
ConverterConfigureKeep(ss, inputCfg, outputCfgs, hw, tr) ==
    LET r == ConfigureFrom(<<>>, 0, inputCfg, outputCfgs, hw, tr)
    IN  [ss |-> r.ss, ret |-> r.ret, tr |-> r.tr]

\* configure without the initial streams_.clear().
ConverterConfigureNoClear(ss, inputCfg, outputCfgs, hw, tr) ==
    LET r == ConfigureFrom(ss, 0, inputCfg, outputCfgs, hw, tr)
    IN  IF r.ret < 0 THEN [ss |-> <<>>, ret |-> r.ret, tr |-> r.tr]
        ELSE [ss |-> r.ss, ret |-> 0, tr |-> r.tr]

\* V4L2M2MConverter::configure.  Returns [ss, ret, tr].
ConverterConfigure(ss, inputCfg, outputCfgs, hw, tr) ==
    LET r == ConfigureFrom(<<>>, 0, inputCfg, outputCfgs, hw, tr)
    IN  IF r.ret < 0 THEN [ss |-> <<>>, ret |-> r.ret, tr |-> r.tr]
        ELSE [ss |-> r.ss, ret |-> 0, tr |-> r.tr]

\* The loop of V4L2M2MConverter::stop, from position k (1-based) downwards.
RECURSIVE StopFrom(_, _, _)
StopFrom(ss, k, tr) ==
    IF k < 1 THEN [ss |-> ss, tr |-> tr]
    ELSE LET u == StreamStop(ss[k], tr)
         IN  StopFrom([ss EXCEPT ![k] = u.s], k - 1, u.tr)

\* stop that walks the streams in creation order.
RECURSIVE StopUpFrom(_, _, _)
StopUpFrom(ss, k, tr) ==
    IF k > Len(ss) THEN [ss |-> ss, tr |-> tr]
    ELSE LET u == StreamStop(ss[k], tr)
         IN  StopUpFrom([ss EXCEPT ![k] = u.s], k + 1, u.tr)
ConverterStopForward(ss, tr) == StopUpFrom(ss, 1, tr)

\* V4L2M2MConverter::stop.  Returns [ss, tr].
ConverterStop(ss, tr) == StopFrom(ss, Len(ss), tr)

\* The loop of start without the stop() on failure.
RECURSIVE StartFromNoStop(_, _, _, _)
StartFromNoStop(ss, k, hw, tr) ==
    IF k > Len(ss) THEN [ss |-> ss, ret |-> 0, tr |-> tr]
    ELSE LET r == StreamStart(ss[k], hw[k], tr)
             ss1 == [ss EXCEPT ![k] = r.s]
         IN  IF r.ret < 0 THEN [ss |-> ss1, ret |-> r.ret, tr |-> r.tr]
             ELSE StartFromNoStop(ss1, k + 1, hw, r.tr)

\* The loop of V4L2M2MConverter::start, from position k (1-based) upwards.
RECURSIVE StartFrom(_, _, _, _)
StartFrom(ss, k, hw, tr) ==
    IF k > Len(ss) THEN [ss |-> ss, ret |-> 0, tr |-> tr]
    ELSE LET r == StreamStart(ss[k], hw[k], tr)
             ss1 == [ss EXCEPT ![k] = r.s]
         IN  IF r.ret < 0
             THEN LET u == ConverterStop(ss1, r.tr)
                  IN  [ss |-> u.ss, ret |-> r.ret, tr |-> u.tr]
             ELSE StartFrom(ss1, k + 1, hw, r.tr)

\* V4L2M2MConverter::start.  Returns [ss, ret, tr].
ConverterStart(ss, hw, tr) == StartFrom(ss, 1, hw, tr)

\* The validation without the comparison of the number of distinct output
\* buffers with the number of streams.
QueueRejectsNoCount(ss, outputs) ==
    \/ DOMAIN outputs = {}
    \/ \E i \in DOMAIN outputs : outputs[i] = Null \/ i >= Len(ss)

\* The validation of V4L2M2MConverter::queueBuffers: TRUE when the call is
\* rejected with -EINVAL.  `outputs` is a std::map: a function from stream
\* indices to buffers.
QueueRejects(ss, outputs) ==
    LET outputBufs == { outputs[i] : i \in DOMAIN outputs }
    IN  \/ DOMAIN outputs = {}
        \/ \E i \in DOMAIN outputs : outputs[i] = Null \/ i >= Len(ss)
        \/ Cardinality(outputBufs) # Len(ss)

\* The queuing loop of V4L2M2MConverter::queueBuffers over the map's keys
\* in increasing order, from key i; n counts the entries visited so far.
RECURSIVE QueueFrom(_, _, _, _, _, _, _)
QueueFrom(ss, i, n, input, outputs, hw, tr) ==
    IF \A j \in DOMAIN outputs : j < i THEN [ss |-> ss, ret |-> 0, tr |-> tr]
    ELSE IF i \notin DOMAIN outputs
         THEN QueueFrom(ss, i + 1, n, input, outputs, hw, tr)
    ELSE LET r == StreamQueueBuffers(ss[i + 1], input, outputs[i], hw[n + 1], tr)
             ss1 == [ss EXCEPT ![i + 1] = r.s]
         IN  IF r.ret < 0 THEN [ss |-> ss1, ret |-> r.ret, tr |-> r.tr]
             ELSE QueueFrom(ss1, i + 1, n + 1, input, outputs, hw, r.tr)

\* emplace of a reference count of one, whatever the number of outputs.
EmplaceOne(q, key, value) ==
    IF key \in DOMAIN q THEN q ELSE (key :> 1) @@ q

\* an insertion that assigns: a live entry's counter is set again.
EmplaceAssign(q, key, value) ==
    [k \in DOMAIN q \cup {key} |-> IF k = key THEN value ELSE q[k]]

\* std::map::emplace: inserts only when the key is absent.
Emplace(q, key, value) ==
    IF key \in DOMAIN q THEN q ELSE (key :> value) @@ q

\* std::map::erase
Erase(q, key) == [k \in DOMAIN q \ {key} |-> q[k]]

\* queueBuffers that records the input buffer whatever the loop returned.
ConverterQueueBuffersAlways(ss, q, input, outputs, hw, tr) ==
    IF QueueRejects(ss, outputs)
    THEN [ss |-> ss, queue |-> q, ret |-> -EINVAL, tr |-> tr]
    ELSE LET r == QueueFrom(ss, 0, 0, input, outputs, hw, tr)
         IN  [ss |-> r.ss,
              queue |-> Emplace(q, input, Cardinality(DOMAIN outputs)),
              ret |-> r.ret, tr |-> r.tr]

\* V4L2M2MConverter::queueBuffers.  Returns [ss, queue, ret, tr].
ConverterQueueBuffers(ss, q, input, outputs, hw, tr) ==
    IF QueueRejects(ss, outputs)
    THEN [ss |-> ss, queue |-> q, ret |-> -EINVAL, tr |-> tr]
    ELSE LET r == QueueFrom(ss, 0, 0, input, outputs, hw, tr)
         IN  IF r.ret < 0
             THEN [ss |-> r.ss, queue |-> q, ret |-> r.ret, tr |-> r.tr]
             ELSE [ss |-> r.ss,
                   queue |-> Emplace(q, input, Cardinality(DOMAIN outputs)),
                   ret |-> 0, tr |-> r.tr]

\* outputBufferReady that reports a buffer it does not know as consumed.
OutputBufferReadyUnknown(q, i, buffer, tr) ==
    IF buffer \notin DOMAIN q
    THEN [queue |-> q, tr |-> Append(tr, Ev(i, "inputBufferReady", buffer, 0))]
    ELSE LET c == q[buffer] - 1
         IN  IF c = 0
             THEN [queue |-> Erase(q, buffer),
                   tr |-> Append(tr, Ev(i, "inputBufferReady", buffer, 0))]
             ELSE [queue |-> [q EXCEPT ![buffer] = c], tr |-> tr]

\* outputBufferReady that signals at zero and leaves the entry in queue_.
OutputBufferReadyNoErase(q, i, buffer, tr) ==
    IF buffer \notin DOMAIN q THEN [queue |-> q, tr |-> tr]
    ELSE LET c == q[buffer] - 1
         IN  IF c = 0
             THEN [queue |-> [q EXCEPT ![buffer] = c],
                   tr |-> Append(tr, Ev(i, "inputBufferReady", buffer, 0))]
             ELSE [queue |-> [q EXCEPT ![buffer] = c], tr |-> tr]

\* outputBufferReady that signals on the first release of a reference.
OutputBufferReadyEager(q, i, buffer, tr) ==
    IF buffer \notin DOMAIN q THEN [queue |-> q, tr |-> tr]
    ELSE [queue |-> Erase(q, buffer),
          tr |-> Append(tr, Ev(i, "inputBufferReady", buffer, 0))]

\* outputBufferReady that signals one reference short.
OutputBufferReadyShort(q, i, buffer, tr) ==
    IF buffer \notin DOMAIN q THEN [queue |-> q, tr |-> tr]
    ELSE LET c == q[buffer] - 1
         IN  IF c <= 1
             THEN [queue |-> Erase(q, buffer),
                   tr |-> Append(tr, Ev(i, "inputBufferReady", buffer, 0))]
             ELSE [queue |-> [q EXCEPT ![buffer] = c], tr |-> tr]

\* Stream::outputBufferReady, the slot of the input side's bufferReady
\* signal of stream i.  Returns [queue, tr].
OutputBufferReady(q, i, buffer, tr) ==
    IF buffer \notin DOMAIN q THEN [queue |-> q, tr |-> tr]
    ELSE LET c == q[buffer] - 1
         IN  IF c = 0
             THEN [queue |-> Erase(q, buffer),
                   tr |-> Append(tr, Ev(i, "inputBufferReady", buffer, 0))]
             ELSE [queue |-> [q EXCEPT ![buffer] = c], tr |-> tr]

\* Stream::captureBufferReady, the slot of the output side's bufferReady
\* signal of stream i.  Returns the trace.
CaptureBufferReady(i, buffer, tr) ==
    Append(tr, Ev(i, "outputBufferReady", buffer, 0))

\* Stream::outputBufferReady when the slot the caller connected to
\* inputBufferReady calls queueBuffers(buffer, outputs) before it returns:
\* the signal is emitted, and the slot runs, between the decrement and the
\* erase.  Returns [ss, queue, ret, tr]; ret is what the slot's queueBuffers
\* returned (0 when the slot did not run).
OutputBufferReadyRequeue(ss, q, i, buffer, outputs, hw, tr) ==
    IF buffer \notin DOMAIN q THEN [ss |-> ss, queue |-> q, ret |-> 0, tr |-> tr]
    ELSE LET c == q[buffer] - 1
             q1 == [q EXCEPT ![buffer] = c]
         IN  IF c = 0
             THEN LET r == ConverterQueueBuffers(
                               ss, q1, buffer, outputs, hw,
                               Append(tr, Ev(i, "inputBufferReady", buffer, 0)))
                  IN  [ss |-> r.ss, queue |-> Erase(r.queue, buffer),
                       ret |-> r.ret, tr |-> r.tr]
             ELSE [ss |-> ss, queue |-> q1, ret |-> 0, tr |-> tr]

\* ------------------------------------------------------------------------
\* History kept for the properties: what the caller passed and saw.
\* ------------------------------------------------------------------------
\* The class of an `outputs` argument against K configured streams.
OutputsKind(outputs, K) ==
    LET D == DOMAIN outputs
    IN  CASE D = {} -> "empty"
          [] \E i \in D : i >= K -> "index"
          [] \E i \in D : outputs[i] = Null -> "null"
          [] Cardinality(D) < K -> "fewer"
          [] \E i, j \in D : i # j /\ outputs[i] = outputs[j] -> "duplicate"
          [] OTHER -> "valid"

\* The last call: its name, its return value, the input buffer passed, the
\* class of the outputs passed, the number of outputs or streams, and the
\* bufferCount of each output configuration passed.
Call(op, ret, input, kind, n, counts) ==
    [op |-> op, ret |-> ret, input |-> input, kind |-> kind, n |-> n,
     counts |-> counts]

\* req[b], the history of input buffer b (see Observe below).
NoReq ==
    [n |-> 0, outs |-> <<>>, who |-> {}, emits |-> 0, outReady |-> {},
     clean |-> TRUE]

\* ------------------------------------------------------------------------
\* State machine
\* ------------------------------------------------------------------------
Init ==
    /\ streams_ = <<>>
    /\ queue_ = <<>>
    /\ last = Call("construct", 0, Null, "", 0, <<>>)
    /\ trace = <<>>
    /\ req = [b \in InBufs |-> NoReq]

\* configure(inputCfg, outputCfgs), the configurations drawn from InCfgs and
\* OutCfgs and the hardware's answers from HW[K].
Configure(InCfgs, OutCfgs, HW) ==
    \E inputCfg \in InCfgs, K \in 0 .. MaxStreams :
      \E outputCfgs \in [1 .. K -> OutCfgs], hw \in HW[K] :
        LET r == ConverterConfigure(streams_, inputCfg, outputCfgs, hw, <<>>)
        IN  /\ streams_' = r.ss
            /\ last' = Call("configure", r.ret, Null, "", K,
                            [i \in 1 .. K |-> outputCfgs[i].bufferCount])
            /\ trace' = r.tr
            /\ UNCHANGED queue_

\* start(), the hardware's answers drawn from HW[number of streams].
Start(HW) ==
    \E hw \in HW[Len(streams_)] :
        LET r == ConverterStart(streams_, hw, <<>>)
        IN  /\ streams_' = r.ss
            /\ last' = Call("start", r.ret, Null, "", Len(streams_), <<>>)
            /\ trace' = r.tr
            /\ UNCHANGED queue_

\* stop()
Stop ==
    LET r == ConverterStop(streams_, <<>>)
    IN  /\ streams_' = r.ss
        /\ last' = Call("stop", 0, Null, "", Len(streams_), <<>>)
        /\ trace' = r.tr
        /\ UNCHANGED queue_

\* `outputs` arguments against K streams: every map from stream indices
\* 0..K (K itself is out of range) to an output buffer or nullptr.
OutputMaps ==
    [K \in 0 .. MaxStreams |->
        UNION { [D -> OutBufs \cup {Null}] : D \in SUBSET (0 .. K) }]

\* The maps that pass the validation: one distinct buffer per stream.
ValidMaps ==
    [K \in 0 .. MaxStreams |->
        { m \in [0 .. (K - 1) -> OutBufs] :
            \A i, j \in DOMAIN m : i # j => m[i] # m[j] }]

\* The maps among them that name existing streams and no nullptr.
PlainMaps ==
    [K \in 0 .. MaxStreams |->
        UNION { [D -> OutBufs] : D \in SUBSET (0 .. (K - 1)) }]

\* queueBuffers(input, outputs), input drawn from Inputs, outputs from
\* Maps[number of streams] and the hardware's answers from HW.
QueueBuffers(Inputs, Maps, HW) ==
    \E input \in Inputs, outputs \in Maps[Len(streams_)] :
      \E hw \in (IF DOMAIN outputs \subseteq 0 .. (Len(streams_) - 1)
                 THEN HW[Cardinality(DOMAIN outputs)]
                 ELSE HW[0]) :
        LET r == ConverterQueueBuffers(streams_, queue_, input, outputs, hw, <<>>)
        IN  /\ streams_' = r.ss
            /\ queue_' = r.queue
            /\ last' = Call("queueBuffers", r.ret, input,
                            OutputsKind(outputs, Len(streams_)),
                            Cardinality(DOMAIN outputs), <<>>)
            /\ trace' = r.tr

\* queueBuffers calls that return 0: the caller only queues what the
\* devices can take.
QueueBuffersOk(Inputs, Maps, HW) ==
    /\ QueueBuffers(Inputs, Maps, HW)
    /\ last'.ret = 0

\* The input side of stream i (position k = i + 1) completes its oldest
\* buffer: bufferReady of m2m_->output() runs Stream::outputBufferReady.
InputDone(k) ==
    /\ k \in 1 .. Len(streams_)
    /\ streams_[k].output.streaming
    /\ streams_[k].output.held # <<>>
    /\ LET b == Head(streams_[k].output.held)
           i == streams_[k].index_
           r == OutputBufferReady(queue_, i, b, <<Ev(i, "output.bufferReady", b, 0)>>)
       IN  /\ streams_' = [streams_ EXCEPT ![k].output.held = Tail(@)]
           /\ queue_' = r.queue
           /\ last' = Call("outputBufferReady", 0, b, "", i, <<>>)
           /\ trace' = r.tr

\* The output side of stream i completes its oldest buffer: bufferReady of
\* m2m_->capture() runs Stream::captureBufferReady.
CaptureDone(k) ==
    /\ k \in 1 .. Len(streams_)
    /\ streams_[k].capture.streaming
    /\ streams_[k].capture.held # <<>>
    /\ LET b == Head(streams_[k].capture.held)
           i == streams_[k].index_
       IN  /\ streams_' = [streams_ EXCEPT ![k].capture.held = Tail(@)]
           /\ last' = Call("captureBufferReady", 0, b, "", i, <<>>)
           /\ trace' = CaptureBufferReady(i, b, <<Ev(i, "capture.bufferReady", b, 0)>>)
           /\ UNCHANGED queue_

\* The input side of stream i completes its oldest buffer, the last
\* reference to it, and the caller's inputBufferReady slot queues the buffer
\* again from inside the signal.
InputDoneRequeue(k, Maps, HW) ==
    /\ k \in 1 .. Len(streams_)
    /\ streams_[k].output.streaming
    /\ streams_[k].output.held # <<>>
    /\ LET b == Head(streams_[k].output.held)
           i == streams_[k].index_
           ss == [streams_ EXCEPT ![k].output.held = Tail(@)]
       IN  /\ b \in DOMAIN queue_
           /\ queue_[b] = 1
           /\ \E outputs \in Maps[Len(streams_)] :
                 \E hw \in HW[Cardinality(DOMAIN outputs)] :
                   LET r == OutputBufferReadyRequeue(
                                ss, queue_, i, b, outputs, hw,
                                <<Ev(i, "output.bufferReady", b, 0)>>)
                   IN  /\ streams_' = r.ss
                       /\ queue_' = r.queue
                       /\ last' = Call("inputBufferReady", r.ret, b,
                                       OutputsKind(outputs, Len(streams_)),
                                       Cardinality(DOMAIN outputs), <<>>)
                       /\ trace' = r.tr

\* ------------------------------------------------------------------------
\* History of each input buffer, read off the calls and signals of a step.
\* req[b] follows one request for b, from the queueBuffers call that
\* inserts b's queue_ entry:
\*   n        the counter the entry was inserted with (0: no request)
\*   outs     the output buffer that call queued to each stream
\*   who      the streams whose input side has signalled b since
\*   outReady the streams whose output buffer of that call was signalled
\*            ready since
\*   emits    the inputBufferReady(b) signals since (counted up to 2)
\*   clean    FALSE once the run leaves the case followed here: stop(),
\*            configure() or a failed start() was called, or a stream
\*            signalled b a second time.  The history is then dropped.
\* A request that completed (every stream signalled, one emission) is
\* forgotten at the next step; a later emission for b is still counted.
\* ------------------------------------------------------------------------
Dirty == [NoReq EXCEPT !.clean = FALSE]
Min(a, b) == IF a < b THEN a ELSE b
Count(tr, op, b) ==
    Cardinality({ k \in 1 .. Len(tr) : tr[k].op = op /\ tr[k].arg = b })
Streams(tr, op, b) ==
    { tr[k].s : k \in { j \in 1 .. Len(tr) : tr[j].op = op /\ tr[j].arg = b } }
OutsOf(tr) ==
    LET Q == { k \in 1 .. Len(tr) : tr[k].op = "capture.queueBuffer" /\ tr[k].ret = 0 }
    IN  [i \in { tr[k].s : k \in Q } |-> tr[CHOOSE k \in Q : tr[k].s = i].arg]
Completed(r) == r.n > 0 /\ r.emits = 1 /\ r.who = 0 .. (r.n - 1)

Observed(r0, b, q, q1, call, tr) ==
    LET r == IF Completed(r0) THEN NoReq ELSE r0
        sig == Streams(tr, "output.bufferReady", b)
        ready == { i \in DOMAIN r.outs :
                     i \in Streams(tr, "outputBufferReady", r.outs[i]) }
    IN  IF b \notin DOMAIN q /\ b \in DOMAIN q1
        THEN [n |-> q1[b], outs |-> OutsOf(tr), who |-> {}, emits |-> 0,
              outReady |-> {}, clean |-> TRUE]
        ELSE IF \/ ~r.clean
                \/ call.op \in {"stop", "configure"}
                \/ call.op = "start" /\ call.ret < 0
                \/ sig \cap r.who # {}
             THEN Dirty
        ELSE [r EXCEPT
                !.who = IF r.n > 0 THEN @ \cup sig ELSE @,
                !.emits = Min(2, @ + Count(tr, "inputBufferReady", b)),
                !.outReady = @ \cup ready]

Observe ==
    req' = [b \in InBufs |-> Observed(req[b], b, queue_, queue_', last', trace')]

\* ------------------------------------------------------------------------
\* Specifications.  They run the same operations from the same initial
\* state and differ in the arguments and hardware answers enumerated.
\* ------------------------------------------------------------------------
OneInput == {1}
SmallInCfgs == { c \in InputCfgs : c.bufferCount = 1 }
SmallOutCfgs == { c \in OutputCfgs : c.bufferCount = 1 }
LargeInCfgs == { c \in InputCfgs : c.bufferCount = 2 }

\* Hardware that never fails, and hardware whose only failure is open().
OkConfigureRuns ==
    [n \in 0 .. MaxStreams |-> Runs(n, {HwConfigureOk}, HwConfigureOk, ConfigureFails)]
OpenConfigureRuns ==
    [n \in 0 .. MaxStreams |->
        Runs(n, { h \in HwConfigure : h = HwConfigureOk \/ h.open # 0 },
             HwConfigureOk, ConfigureFails)]
OkStartRuns ==
    [n \in 0 .. MaxStreams |-> Runs(n, {HwStartOk}, HwStartOk, StartFails)]
OkQueueRuns ==
    [n \in 0 .. MaxStreams |-> Runs(n, {HwQueueOk}, HwQueueOk, QueueFails)]

\* Spec: the life cycle.  Calls that pass the validation, every hardware
\* failure of start and queueBuffers; configure sees open() failures only
\* (every failure of configure leaves the same state behind: no stream).
Next ==
    \/ Configure(SmallInCfgs, SmallOutCfgs, OpenConfigureRuns)
    \/ Start(StartRuns)
    \/ Stop
    \/ QueueBuffers(OneInput, ValidMaps, QueueRuns)
    \/ \E k \in 1 .. MaxStreams : InputDone(k)
    \/ \E k \in 1 .. MaxStreams : CaptureDone(k)

Spec == Init /\ [][Next /\ UNCHANGED req]_vars

\* SpecValidate: queueBuffers called with every `outputs` map, on converters
\* that are unconfigured, idle, started, holding buffers or waiting for
\* completions.
NextValidate ==
    \/ Configure(SmallInCfgs, SmallOutCfgs, OkConfigureRuns)
    \/ Start(OkStartRuns)
    \/ QueueBuffers(OneInput, OutputMaps, OkQueueRuns)
    \/ \E k \in 1 .. MaxStreams : InputDone(k)

SpecValidate == Init /\ [][NextValidate /\ UNCHANGED req]_vars

\* SpecConfigure: configure with every configuration, against every
\* hardware answer that makes it fail, called on converters that are
\* unconfigured, idle, started or holding buffers.
FailConfigureRuns ==
    [n \in 0 .. MaxStreams |->
        Runs(n, { h \in HwConfigure : h.outAlter # "bpl" }, HwConfigureOk,
             ConfigureFails)]

NextConfigure ==
    \/ Configure(SmallInCfgs, OutputCfgs, FailConfigureRuns)
    \/ Start(OkStartRuns)
    \/ Stop
    \/ QueueBuffers(OneInput, ValidMaps, OkQueueRuns)

SpecConfigure == Init /\ [][NextConfigure /\ UNCHANGED req]_vars

\* SpecFanIn: the completion fan-in with its history.  Calls that pass the
\* validation, on hardware that fails no call on its own: queueBuffers fails
\* when a device has no free registration left (two on the input side, one
\* on the output side), which leaves partially queued requests behind.  The
\* input buffer can be queued again while it is in flight.
NextFanIn ==
    \/ Configure(LargeInCfgs, SmallOutCfgs, OkConfigureRuns)
    \/ Start(OkStartRuns)
    \/ Stop
    \/ QueueBuffers(OneInput, ValidMaps, OkQueueRuns)
    \/ \E k \in 1 .. MaxStreams : InputDone(k)
    \/ \E k \in 1 .. MaxStreams : CaptureDone(k)

SpecFanIn == Init /\ [][NextFanIn /\ Observe]_vars

\* SpecRequeue: the caller queues the input buffer again from inside its
\* inputBufferReady slot, or later from outside it.
NextRequeue ==
    \/ Configure(SmallInCfgs, SmallOutCfgs, OkConfigureRuns)
    \/ Start(OkStartRuns)
    \/ QueueBuffers(OneInput, ValidMaps, OkQueueRuns)
    \/ \E k \in 1 .. MaxStreams : InputDone(k)
    \/ \E k \in 1 .. MaxStreams : InputDoneRequeue(k, ValidMaps, OkQueueRuns)
    \/ \E k \in 1 .. MaxStreams : CaptureDone(k)

SpecRequeue == Init /\ [][NextRequeue /\ UNCHANGED req]_vars

\* SpecDispatch: runs in which every queueBuffers call succeeds, so that
\* every buffer a device holds was submitted by a successful call; with the
\* history of SpecFanIn.
NextDispatch ==
    \/ Configure(LargeInCfgs, SmallOutCfgs, OkConfigureRuns)
    \/ Start(OkStartRuns)
    \/ Stop
    \/ QueueBuffersOk(OneInput, ValidMaps, OkQueueRuns)
    \/ \E k \in 1 .. MaxStreams : InputDone(k)
    \/ \E k \in 1 .. MaxStreams : CaptureDone(k)

SpecDispatch == Init /\ [][NextDispatch /\ Observe]_vars

\* SpecLive: the capture loop of the camera test.  The caller configures
\* and starts once, queues the input buffer, and queues it again when it
\* comes back: from inside its inputBufferReady slot, as requestComplete
\* does, or later.  Every queueBuffers call succeeds.  The devices complete
\* every buffer they hold: each stream's completions are weakly fair.
\* req[b] records here
\*   n      1 while a successful queueBuffers(b) has not been followed by
\*          an inputBufferReady(b) signal, else 0
\*   emits  the parity of the number of inputBufferReady(b) signals
Awaited(r0, b, call, tr) ==
    LET accepted == /\ call.op \in {"queueBuffers", "inputBufferReady"}
                    /\ call.ret = 0 /\ call.input = b
        emitted == Count(tr, "inputBufferReady", b)
    IN  [r0 EXCEPT
            !.n = IF accepted THEN 1 ELSE IF emitted > 0 THEN 0 ELSE @,
            !.emits = (@ + emitted) % 2]

ObserveLive ==
    req' = [b \in InBufs |-> Awaited(req[b], b, last', trace')]

InputDoneRequeueOk(k, Maps, HW) ==
    /\ InputDoneRequeue(k, Maps, HW)
    /\ last'.ret = 0

Completion(k) ==
    \/ InputDone(k)
    \/ InputDoneRequeueOk(k, ValidMaps, OkQueueRuns)

NextLive ==
    \/ last.op = "construct" /\ Configure(SmallInCfgs, SmallOutCfgs, OkConfigureRuns)
    \/ last.op = "configure" /\ Start(OkStartRuns)
    \/ QueueBuffersOk(InBufs, ValidMaps, OkQueueRuns)
    \/ \E k \in 1 .. MaxStreams : Completion(k)
    \/ \E k \in 1 .. MaxStreams : CaptureDone(k)

SpecLive ==
    /\ Init
    /\ [][NextLive /\ ObserveLive]_vars
    /\ \A k \in 1 .. MaxStreams : WF_vars(Completion(k) /\ ObserveLive)
    /\ \A k \in 1 .. MaxStreams : WF_vars(CaptureDone(k) /\ ObserveLive)

\* SpecLiveOutside: the same loop when the caller never queues from inside
\* the slot.
NextLiveOutside ==
    \/ last.op = "construct" /\ Configure(SmallInCfgs, SmallOutCfgs, OkConfigureRuns)
    \/ last.op = "configure" /\ Start(OkStartRuns)
    \/ QueueBuffersOk(InBufs, ValidMaps, OkQueueRuns)
    \/ \E k \in 1 .. MaxStreams : InputDone(k)
    \/ \E k \in 1 .. MaxStreams : CaptureDone(k)

SpecLiveOutside ==
    /\ Init
    /\ [][NextLiveOutside /\ ObserveLive]_vars
    /\ \A k \in 1 .. MaxStreams : WF_vars(InputDone(k) /\ ObserveLive)
    /\ \A k \in 1 .. MaxStreams : WF_vars(CaptureDone(k) /\ ObserveLive)

\* SpecDuplicate: the input buffer queued again while its entry is live,
\* on streams with two input registrations each.  req[b].n records here
\* the queueBuffers(b) calls that returned 0 less the inputBufferReady(b)
\* signals emitted, counted up to 2; -1 once a signal was emitted that no
\* successful call was left to account for.
Credited(r0, b, call, tr) ==
    LET ok == call.op = "queueBuffers" /\ call.ret = 0 /\ call.input = b
        c == r0.n + (IF ok THEN 1 ELSE 0) - Count(tr, "inputBufferReady", b)
    IN  [r0 EXCEPT !.n = IF r0.n < 0 \/ c < 0 THEN -1 ELSE Min(2, c)]

ObserveCredit ==
    req' = [b \in InBufs |-> Credited(req[b], b, last', trace')]

NextDuplicate ==
    \/ Configure(LargeInCfgs, SmallOutCfgs, OkConfigureRuns)
    \/ Start(OkStartRuns)
    \/ QueueBuffers(OneInput, ValidMaps, OkQueueRuns)
    \/ \E k \in 1 .. MaxStreams : InputDone(k)
    \/ \E k \in 1 .. MaxStreams : CaptureDone(k)

SpecDuplicate == Init /\ [][NextDuplicate /\ ObserveCredit]_vars

\* SpecStream: one Stream on its own, its operations called directly with
\* every configuration and every hardware answer, in any order, and its
\* devices completing buffers.  `last` names the Stream operation; for
\* configure, last.counts holds the two bufferCounts passed, and for
\* queueBuffers the output buffer passed.
InitStream ==
    /\ streams_ = <<Stream(0, 0)>>
    /\ queue_ = <<>>
    /\ last = Call("Stream", 0, Null, "", 0, <<>>)
    /\ trace = <<>>
    /\ req = [b \in InBufs |-> NoReq]

CallStreamConfigure ==
    \E inputCfg \in InputCfgs, outputCfg \in OutputCfgs :
      \E h \in { x \in HwConfigure : x.open = 0 } :
        LET r == StreamConfigure(streams_[1], inputCfg, outputCfg, h, <<>>)
        IN  /\ streams_' = <<r.s>>
            /\ last' = Call("Stream::configure", r.ret, Null, "", 0,
                            <<inputCfg.bufferCount, outputCfg.bufferCount>>)
            /\ trace' = r.tr
            /\ UNCHANGED queue_

CallStreamStart ==
    \E h \in HwStart :
        LET r == StreamStart(streams_[1], h, <<>>)
        IN  /\ streams_' = <<r.s>>
            /\ last' = Call("Stream::start", r.ret, Null, "", 0, <<>>)
            /\ trace' = r.tr
            /\ UNCHANGED queue_

CallStreamStop ==
    LET r == StreamStop(streams_[1], <<>>)
    IN  /\ streams_' = <<r.s>>
        /\ last' = Call("Stream::stop", 0, Null, "", 0, <<>>)
        /\ trace' = r.tr
        /\ UNCHANGED queue_

CallStreamQueueBuffers ==
    \E input \in OneInput, output \in OutBufs, h \in HwQueue :
        LET r == StreamQueueBuffers(streams_[1], input, output, h, <<>>)
        IN  /\ streams_' = <<r.s>>
            /\ last' = Call("Stream::queueBuffers", r.ret, input, "", 0, <<output>>)
            /\ trace' = r.tr
            /\ UNCHANGED queue_

NextStream ==
    \/ CallStreamConfigure
    \/ CallStreamStart
    \/ CallStreamStop
    \/ CallStreamQueueBuffers
    \/ \E k \in 1 .. MaxStreams : InputDone(k)
    \/ \E k \in 1 .. MaxStreams : CaptureDone(k)

SpecStream == InitStream /\ [][NextStream /\ UNCHANGED req]_vars

\* ------------------------------------------------------------------------
\* Reading the trace and the streams
\* ------------------------------------------------------------------------
\* The streams that made call `op` during the step, in the order of the calls.
Tried(tr, op) ==
    LET sel == SelectSeq(tr, LAMBDA e : e.op = op)
    IN  [j \in 1 .. Len(sel) |-> sel[j].s]
Upto(m) == [j \in 1 .. m |-> j - 1]          \* <<0, 1, ..., m-1>>
Downfrom(m) == [j \in 1 .. m |-> m - j]      \* <<m-1, ..., 1, 0>>
Failed(tr) == { k \in 1 .. Len(tr) : tr[k].ret < 0 }
Started(s) == s.output.streaming /\ s.capture.streaming
Idle(s) ==
    /\ ~s.output.streaming /\ ~s.capture.streaming
    /\ s.output.bufs = 0 /\ s.capture.bufs = 0
    /\ s.output.held = <<>> /\ s.capture.held = <<>>
Signals(tr) ==
    { k \in 1 .. Len(tr) : tr[k].op \in {"inputBufferReady", "outputBufferReady"} }

\* ------------------------------------------------------------------------
\* Properties
\* ------------------------------------------------------------------------
\* C1: in a run without stop, configure or a failed start since the queue_
\* entry of input buffer b was inserted with counter n, and in which each
\* stream signals b at most once, inputBufferReady(b) has been emitted
\* exactly once when all n streams have signalled b, and not at all before.
C1FanIn ==
    \A b \in InBufs :
        req[b].clean =>
            req[b].emits = (IF req[b].n > 0 /\ req[b].who = 0 .. (req[b].n - 1)
                            THEN 1 ELSE 0)

\* the second of two streams has just signalled b: the one emission
C1Witness ==
    \E b \in InBufs :
        /\ req[b].clean /\ req[b].n = 2 /\ req[b].who = {0, 1}
        /\ req[b].emits = 1
        /\ last.op = "outputBufferReady"
        /\ b \notin DOMAIN queue_

\* C2 as stated: once inputBufferReady(b) has been emitted, outputBufferReady
\* has been emitted for the output buffer of every stream of that call.
C2AsStated ==
    \A b \in InBufs :
        req[b].clean /\ req[b].emits >= 1 =>
            req[b].outReady = DOMAIN req[b].outs

\* C2 (amended): once inputBufferReady(b) has been emitted, every stream of
\* the call that inserted b's entry has signalled its input share of b done;
\* nothing is required of the outputBufferReady signals.
C2InputAfterShares ==
    \A b \in InBufs :
        req[b].clean /\ req[b].emits >= 1 =>
            /\ req[b].n = Cardinality(DOMAIN req[b].outs)
            /\ req[b].who = DOMAIN req[b].outs

\* the input buffer is reported consumed while no output buffer of the call
\* has been reported ready
C2Witness ==
    \E b \in InBufs :
        /\ req[b].clean /\ req[b].emits = 1
        /\ Cardinality(DOMAIN req[b].outs) = 2
        /\ req[b].who = DOMAIN req[b].outs
        /\ req[b].outReady = {}

\* C3: a queueBuffers call whose outputs map is empty, names a stream index
\* that is not configured, holds a null buffer, has fewer entries than there
\* are streams or gives one buffer to two streams returns -EINVAL, makes no
\* device call and leaves the streams and queue_ as they were.
C3Validation ==
    [][ last'.op = "queueBuffers" /\ last'.kind # "valid" =>
            /\ last'.ret = -EINVAL
            /\ trace' = <<>>
            /\ streams_' = streams_
            /\ queue_' = queue_ ]_vars

\* two started streams, one of them holding a request, and a call that
\* passes the same output buffer for both
C3Witness ==
    /\ last.op = "queueBuffers" /\ last.kind = "duplicate"
    /\ last.ret = -EINVAL
    /\ Len(streams_) = 2
    /\ \A k \in 1 .. 2 : Started(streams_[k])
    /\ streams_[1].output.held # <<>>
    /\ DOMAIN queue_ # {}

\* C4 as stated: after stop() returns, queue_ is empty.
C4AsStated == last.op = "stop" => DOMAIN queue_ = {}

\* C5: start() starts the streams in index order and stops at the first
\* that fails.  When no device call failed it returns 0 with every stream
\* streaming on both sides; when one failed it returns that call's error,
\* no later stream was touched and every stream is idle again.
C5AllOrNothing ==
    last.op = "start" =>
        LET tried == Tried(trace, "output.importBuffers")
            K == Len(streams_)
        IN  /\ tried = Upto(Len(tried)) /\ Len(tried) <= K
            /\ Failed(trace) = {} =>
                  /\ last.ret = 0 /\ Len(tried) = K
                  /\ \A k \in 1 .. K : Started(streams_[k])
            /\ Failed(trace) # {} =>
                  /\ \E f \in Failed(trace) :
                        /\ Failed(trace) = {f}
                        /\ last.ret = trace[f].ret
                        /\ trace[f].s = tried[Len(tried)]
                  /\ \A k \in 1 .. K : Idle(streams_[k])

\* stream 0 was started completely, then the first call of stream 1 failed
C5Witness ==
    /\ last.op = "start" /\ last.ret < 0
    /\ Len(streams_) = 2
    /\ \E k \in 1 .. Len(trace) :
          trace[k].s = 0 /\ trace[k].op = "capture.streamOn" /\ trace[k].ret = 0
    /\ \E k \in 1 .. Len(trace) :
          trace[k].s = 1 /\ trace[k].op = "output.importBuffers" /\ trace[k].ret < 0

\* A device call of configure that makes the stream unusable: open() failed,
\* setFormat() failed, or the negotiation altered a field that is compared.
Bad(e) ==
    \/ e.op = "open" /\ e.ret < 0
    \/ e.op = "output.setFormat" /\ (e.ret < 0 \/ e.arg # 0)
    \/ e.op = "capture.setFormat" /\ (e.ret < 0 \/ e.arg \in {1, 2})

\* C6: configure() creates and configures the streams one after another in
\* index order.  It fails exactly when a stream is unusable; that stream is
\* the last one touched, its failing call is the last call made, the error
\* is the call's own or -EINVAL, and no stream is left afterwards.
C6AbortsOnFirst ==
    last.op = "configure" =>
        LET created == Tried(trace, "open")
            bad == { k \in 1 .. Len(trace) : Bad(trace[k]) }
        IN  /\ created = Upto(Len(created)) /\ Len(created) <= last.n
            /\ \A j, k \in 1 .. Len(trace) : j < k => trace[j].s <= trace[k].s
            /\ (bad # {}) <=> (last.ret < 0)
            /\ bad # {} =>
                  /\ bad = {Len(trace)}
                  /\ trace[Len(trace)].s = Len(created) - 1
                  /\ last.ret = (IF trace[Len(trace)].op # "open"
                                    /\ trace[Len(trace)].ret < 0
                                 THEN trace[Len(trace)].ret ELSE -EINVAL)
                  /\ streams_ = <<>>

\* stream 0 was configured, then the input stride of stream 1 came back
\* altered: nothing is left of either
C6Witness ==
    /\ last.op = "configure" /\ last.ret = -EINVAL /\ last.n = 2
    /\ trace[Len(trace)] = Ev(1, "output.setFormat", 3, 0)
    /\ streams_ = <<>>

\* C7: after a configure() of K outputs that returned 0 there are exactly K
\* streams, stream i at position i with index i and the bufferCount of
\* output configuration i; each was constructed by this call and its device
\* is as the constructor left it, whatever the streams before the call were.
C7FreshStreams ==
    last.op = "configure" /\ last.ret = 0 =>
        /\ Len(streams_) = last.n
        /\ Tried(trace, "open") = Upto(last.n)
        /\ \A k \in 1 .. Len(streams_) :
              /\ streams_[k].index_ = k - 1
              /\ streams_[k].valid
              /\ streams_[k].outputBufferCount_ = last.counts[k]
              /\ streams_[k].output = Stream(k - 1, 0).output
              /\ streams_[k].capture = Stream(k - 1, 0).capture

\* two outputs with different buffer counts
C7Witness ==
    /\ last.op = "configure" /\ last.ret = 0 /\ last.n = 2
    /\ last.counts = <<2, 1>>
    /\ Len(streams_) = 2

\* C8: stop(), called by the user or by a failing start(), stops every
\* stream, from the last index down to 0; the user's stop() stops each
\* stream once.
C8ReverseOrder ==
    (last.op = "stop" \/ (last.op = "start" /\ last.ret < 0)) =>
        LET off == Tried(trace, "capture.streamOff")
            K == Len(streams_)
        IN  /\ Len(off) >= K
            /\ SubSeq(off, Len(off) - K + 1, Len(off)) = Downfrom(K)
            /\ last.op = "stop" => Len(off) = K

\* start() failed at the last call of stream 1, with stream 0 streaming
C8Witness ==
    /\ last.op = "start" /\ last.ret < 0
    /\ Len(streams_) = 2
    /\ \E k \in 1 .. Len(trace) :
          trace[k].s = 1 /\ trace[k].op = "capture.streamOn" /\ trace[k].ret < 0

\* C9: stop() called after stop(), or after a successful configure() that
\* was never followed by start(), changes neither the streams nor queue_
\* and raises no inputBufferReady or outputBufferReady signal.
C9Idempotent ==
    [][ (/\ last'.op = "stop"
         /\ \/ last.op = "stop"
            \/ last.op = "configure" /\ last.ret = 0) =>
            /\ streams_' = streams_
            /\ queue_' = queue_
            /\ Signals(trace') = {} ]_vars

\* stop() has returned on two streams, none of which was ever started
C9Witness ==
    /\ last.op = "stop" /\ Len(streams_) = 2
    /\ Len(trace) = 8
    /\ \A k \in 1 .. 2 : Idle(streams_[k]) /\ streams_[k].outputBufferCount_ > 0
    /\ DOMAIN queue_ = {}

\* C10: a queueBuffers call that passes the validation queues to the streams
\* in index order and returns at the first failing device call with that
\* call's error: the streams before it keep what they were given, the
\* streams after it are untouched and queue_ is unchanged.  queue_ gets the
\* entry input -> number of outputs only when no call failed.
C10PartialFailure ==
    [][ last'.op = "queueBuffers" /\ last'.kind = "valid" =>
          LET b == last'.input
              visited == Tried(trace', "output.queueBuffer")
              m == Len(visited)
          IN  /\ visited = Upto(m) /\ m <= Len(streams_)
              /\ Failed(trace') # {} =>
                    /\ Failed(trace') = {Len(trace')}
                    /\ last'.ret = trace'[Len(trace')].ret
                    /\ trace'[Len(trace')].s = m - 1
                    /\ \A k \in 1 .. (m - 1) :
                          /\ streams_'[k].output.held
                                = Append(streams_[k].output.held, b)
                          /\ Len(streams_'[k].capture.held)
                                = Len(streams_[k].capture.held) + 1
                    /\ \A k \in (m + 1) .. Len(streams_) :
                          streams_'[k] = streams_[k]
                    /\ queue_' = queue_
              /\ Failed(trace') = {} =>
                    /\ last'.ret = 0 /\ m = last'.n
                    /\ b \notin DOMAIN queue_ =>
                          queue_' = (b :> last'.n) @@ queue_
              /\ queue_' # queue_ =>
                    /\ Failed(trace') = {} /\ b \notin DOMAIN queue_ ]_vars

\* stream 0 took both buffers, stream 1 refused: stream 0 still holds the
\* input buffer and queue_ has no entry for it
C10Witness ==
    /\ last.op = "queueBuffers" /\ last.kind = "valid" /\ last.ret < 0
    /\ Len(streams_) = 2 /\ Len(trace) >= 3
    /\ trace[2].s = 0 /\ trace[2].op = "capture.queueBuffer" /\ trace[2].ret = 0
    /\ streams_[1].capture.held = <<trace[2].arg>>
    /\ trace[Len(trace)].s = 1
    /\ streams_[1].output.held = <<last.input>>
    /\ last.input \notin DOMAIN queue_

\* C11: when the input side of a stream signals a buffer that has no queue_
\* entry, the slot changes nothing: queue_ is as before, no inputBufferReady
\* or outputBufferReady is raised, and no stream changes beyond the device
\* having given the buffer back.
C11UnknownDropped ==
    [][ last'.op = "outputBufferReady" /\ last'.input \notin DOMAIN queue_ =>
            /\ queue_' = queue_
            /\ Signals(trace') = {}
            /\ Len(streams_') = Len(streams_)
            /\ \A k \in 1 .. Len(streams_) :
                  [streams_'[k] EXCEPT !.output.held = streams_[k].output.held]
                      = streams_[k] ]_vars

\* a started stream signalled a buffer that has no entry (a signal for a
\* buffer with an entry either leaves the entry or raises inputBufferReady)
C11Witness ==
    /\ last.op = "outputBufferReady"
    /\ trace = <<Ev(last.n, "output.bufferReady", last.input, 0)>>
    /\ last.input \notin DOMAIN queue_
    /\ Len(streams_) = 2
    /\ \A k \in 1 .. 2 : Started(streams_[k])

\* C12: every entry of queue_ has a counter of at least 1, before and after
\* every step; an entry leaves queue_ only in the step in which a stream's
\* input side signals its buffer while the counter is 1, and a signal for a
\* buffer whose counter is larger lowers the counter by one and keeps the
\* entry.
C12CounterPositive ==
    [][ /\ \A b \in DOMAIN queue_ : queue_[b] >= 1
        /\ \A b \in DOMAIN queue_' : queue_'[b] >= 1
        /\ \A b \in DOMAIN queue_ :
              /\ b \notin DOMAIN queue_' =>
                    /\ queue_[b] = 1
                    /\ last'.op = "outputBufferReady" /\ last'.input = b
              /\ (last'.op = "outputBufferReady" /\ last'.input = b
                     /\ queue_[b] > 1) =>
                    /\ b \in DOMAIN queue_'
                    /\ queue_'[b] = queue_[b] - 1 ]_vars

\* the second stream signalled the buffer: its entry, which had counter 1,
\* is gone and inputBufferReady was raised in the same step
C12Witness ==
    /\ last.op = "outputBufferReady" /\ last.n = 1
    /\ Len(trace) = 2 /\ trace[2] = Ev(1, "inputBufferReady", last.input, 0)
    /\ DOMAIN queue_ = {}

\* C13 as stated: when the slot connected to inputBufferReady has queued the
\* buffer again with success from inside the signal, queue_ holds an entry
\* for the buffer whose counter is the number of outputs of that call.
C13AsStated ==
    (last.op = "inputBufferReady" /\ last.ret = 0) =>
        /\ last.input \in DOMAIN queue_
        /\ queue_[last.input] = last.n

C15AsStated ==
    \A b \in InBufs : \A p \in {0, 1} :
        (req[b].n = 1 /\ req[b].emits = p) ~> (req[b].emits = 1 - p)

\* The streams whose input side holds buffer b.
Holders(b) ==
    { k \in 1 .. Len(streams_) :
        \E j \in 1 .. Len(streams_[k].output.held) :
            streams_[k].output.held[j] = b }

\* C16 as stated: in every state, the counter of each queue_ entry is the
\* number of streams whose input side holds the entry's buffer, and a step
\* that emitted inputBufferReady(b) leaves no stream holding b.
C16AsStated ==
    /\ \A b \in DOMAIN queue_ : queue_[b] = Cardinality(Holders(b))
    /\ \A b \in InBufs :
          Count(trace, "inputBufferReady", b) > 0 => Holders(b) = {}

\* C17: a queueBuffers(b, outputs) call that passes the validation while b
\* has an entry in queue_ leaves queue_ as it is, whatever it returns; when
\* it returns 0, b was queued to the input side of every stream; and the
\* inputBufferReady(b) signals emitted never outnumber the queueBuffers(b)
\* calls that returned 0.
C17DuplicateQueue ==
    [][ /\ (/\ last'.op = "queueBuffers" /\ last'.kind = "valid"
            /\ last'.input \in DOMAIN queue_) =>
              /\ queue_' = queue_
              /\ last'.ret = 0 =>
                    Streams(trace', "output.queueBuffer", last'.input) =
                        0 .. (Len(streams_) - 1)
        /\ \A b \in InBufs : req'[b].n >= 0 ]_vars

\* b was queued again with success after stream 0 had completed its share:
\* the counter still reads 1, stream 1 holds b twice, and two successful
\* calls stand against no signal
C17Witness ==
    \E b \in InBufs :
        /\ last.op = "queueBuffers" /\ last.ret = 0 /\ last.input = b
        /\ Len(streams_) = 2
        /\ b \in DOMAIN queue_ /\ queue_[b] = 1
        /\ streams_[1].output.held = <<b>>
        /\ streams_[2].output.held = <<b, b>>
        /\ req[b].n = 2

\* The device calls of a step, in order, and the calls of Stream::start
\* and Stream::stop.
Ops(tr) == [j \in 1 .. Len(tr) |-> tr[j].op]
StartCalls ==
    << "output.importBuffers", "capture.importBuffers",
       "output.streamOn", "capture.streamOn" >>
StopCalls ==
    << "capture.streamOff", "output.streamOff",
       "capture.releaseBuffers", "output.releaseBuffers" >>

\* C18 as stated: whichever of the four sub-steps of Stream::start fails,
\* the later ones are not made, the stream is stopped before start returns
\* the failure, and both queues are then inactive without registrations.
C18AsStated ==
    [][ (last'.op = "Stream::start" /\ last'.ret < 0) =>
          \E m \in 1 .. 4 :
              /\ Failed(trace') = {m}
              /\ Ops(trace') = SubSeq(StartCalls, 1, m) \o StopCalls
              /\ Idle(streams_'[1]) ]_vars

\* C18 (amended): Stream::start makes its four calls in order: input
\* import, output import, input streamOn, output streamOn.  The first call
\* that fails ends it and its error is returned.  When that is the input
\* import nothing else is called: the stream is not stopped.  When it is
\* one of the other three, Stream::stop's four calls follow before start
\* returns.
C18StartUnwinds ==
    [][ last'.op = "Stream::start" =>
          IF last'.ret = 0
          THEN Ops(trace') = StartCalls /\ Failed(trace') = {}
          ELSE \E m \in 1 .. 4 :
                  /\ Failed(trace') = {m}
                  /\ trace'[m].ret = last'.ret
                  /\ Ops(trace') = SubSeq(StartCalls, 1, m) \o
                                   (IF m = 1 THEN <<>> ELSE StopCalls) ]_vars

\* start() called on a running stream failed at the input import and
\* returned at once: the stream is still running
C18Witness ==
    /\ last.op = "Stream::start" /\ last.ret < 0
    /\ Ops(trace) = <<"output.importBuffers">>
    /\ Started(streams_[1])
    /\ streams_[1].output.bufs > 0

\* C19: Stream::queueBuffers queues the input buffer first.  When that
\* fails, nothing else is called and the error is returned.  Otherwise the
\* output buffer is queued, and nothing is called after it, so the input
\* buffer stays queued: the call returns the error of the output side if
\* it failed, and 0 if it did not.
C19InputFirst ==
    [][ last'.op = "Stream::queueBuffers" =>
          /\ Len(trace') >= 1
          /\ trace'[1].op = "output.queueBuffer"
          /\ trace'[1].arg = last'.input
          /\ IF trace'[1].ret < 0
             THEN Len(trace') = 1 /\ last'.ret = trace'[1].ret
             ELSE /\ Len(trace') = 2
                  /\ trace'[2].op = "capture.queueBuffer"
                  /\ trace'[2].arg = last'.counts[1]
                  /\ last'.ret = IF trace'[2].ret < 0 THEN trace'[2].ret ELSE 0 ]_vars

\* the output side failed after the input buffer was queued: the call
\* failed and the input side holds the buffer
C19Witness ==
    /\ last.op = "Stream::queueBuffers" /\ last.ret < 0
    /\ Len(trace) = 2 /\ trace[1].ret = 0 /\ trace[2].ret < 0
    /\ streams_[1].output.held = <<last.input>>
    /\ streams_[1].capture.held = <<>>

\* C20: Stream::configure sets the input format first.  When that fails, or
\* the format negotiated differs in fourcc, size or stride (-EINVAL), the
\* output format is not set.  Otherwise the output format is set, and the
\* call fails when that fails or when the fourcc or size negotiated differs
\* (-EINVAL); a different stride is accepted.  The two buffer counts are
\* the ones passed after a call that returned 0 and unchanged after any
\* other.
C20ConfigureOrder ==
    [][ last'.op = "Stream::configure" =>
          LET tr == trace'
              old == streams_[1]
              new == streams_'[1]
          IN  /\ Len(tr) >= 1
              /\ tr[1].op = "output.setFormat"
              /\ IF tr[1].ret < 0
                 THEN Len(tr) = 1 /\ last'.ret = tr[1].ret
                 ELSE IF tr[1].arg # AlterCode("none")
                 THEN Len(tr) = 1 /\ last'.ret = -EINVAL
                 ELSE /\ Len(tr) = 2
                      /\ tr[2].op = "capture.setFormat"
                      /\ last'.ret =
                           IF tr[2].ret < 0 THEN tr[2].ret
                           ELSE IF tr[2].arg \in {AlterCode("fourcc"), AlterCode("size")}
                           THEN -EINVAL
                           ELSE 0
              /\ IF last'.ret = 0
                 THEN /\ new.inputBufferCount_ = last'.counts[1]
                      /\ new.outputBufferCount_ = last'.counts[2]
                 ELSE /\ new.inputBufferCount_ = old.inputBufferCount_
                      /\ new.outputBufferCount_ = old.outputBufferCount_ ]_vars

\* the output side negotiated another stride and configure succeeded,
\* storing the counts passed over older ones
C20Witness ==
    /\ last.op = "Stream::configure" /\ last.ret = 0
    /\ Len(trace) = 2 /\ trace[2].arg = AlterCode("bpl")
    /\ last.counts = <<2, 2>>
    /\ streams_[1].inputBufferCount_ = 2
    /\ streams_[1].outputBufferCount_ = 2

====
